---- MODULE Spec2Model ----
(***************************************************************************)
(* Model of src/main.py: a sequential script that reads a CSV file of      *)
(* transactions and, for every row, resolves (or creates) the customer on  *)
(* the billing platform, submits one usage event and sleeps.               *)
(*                                                                         *)
(* Strings whose content the code inspects (the numeric columns) are       *)
(* sequences of one-character strings; the other columns are opaque.       *)
(* uuid.uuid4() is modelled as a generator that never repeats a value      *)
(* (the n-th draw is the number n).                                        *)
(* The billing platform keeps the customers created, answers a lookup with  *)
(* 404 exactly when it has no such customer, and stores an accepted event   *)
(* unless it already holds one with the same idempotency key.               *)
(***************************************************************************)
EXTENDS Integers, Sequences, FiniteSets

VARIABLES
    file,       \* the rows of the input CSV, in file order
    platform,   \* billing platform: external_customer_id -> customer id, 0 when absent
    nextId,     \* billing platform: the id it gives the next created customer
    pc,         \* position of the script
    i,          \* number of rows the csv reader has yielded
    row,        \* the row being processed
    customer,   \* main's local `customer`
    event,      \* main's local `event`
    response,   \* main's local `response`
    uuids,      \* number of uuid.uuid4() values drawn so far
    client,     \* the Orb client handle: "none", "open" or "closed"
    opens,      \* number of Orb(...) constructions
    closes,     \* number of client.close() calls
    exitcode,   \* -1 while running, then the exit code of the process
    log,        \* the per-row result lines written at lines 180-189
    trace,      \* every API call and every sleep of this run, in the order made
    run,        \* how many times the script has been started
    ingested    \* billing platform: the events it has accepted and stored

vars == <<file, platform, nextId, pc, i, row, customer, event, response,
          uuids, client, opens, closes, exitcode, log, trace, run, ingested>>

(***************************************************************************)
(* Bounds                                                                  *)
(***************************************************************************)
MaxRows == 2
MaxLen == 3

(***************************************************************************)
(* Python values                                                           *)
(***************************************************************************)
None == [none |-> TRUE]

Digits == {"0", "1", "2"}

DigitVal(c) == CASE c = "0" -> 0 [] c = "1" -> 1 [] c = "2" -> 2

\* str.replace(old, ""): every occurrence of the character old is deleted
replace(s, old) == SelectSeq(s, LAMBDA c : c # old)

RECURSIVE lstrip(_)
lstrip(s) == IF s # <<>> /\ Head(s) = " " THEN lstrip(Tail(s)) ELSE s

RECURSIVE rstrip(_)
rstrip(s) ==
    IF s # <<>> /\ s[Len(s)] = " " THEN rstrip(SubSeq(s, 1, Len(s) - 1)) ELSE s

strip(s) == rstrip(lstrip(s))

\* the sign that int() reads off the front of a stripped literal
HasSign(s) == s # <<>> /\ Head(s) \in {"-", "+"}

Unsigned(s) == IF HasSign(s) THEN Tail(s) ELSE s

\* the digit part of a base-10 literal: digits, single underscores only between digits
ValidDigits(d) ==
    /\ d # <<>>
    /\ \A k \in 1..Len(d) : d[k] \in Digits \cup {"_"}
    /\ d[1] \in Digits
    /\ d[Len(d)] \in Digits
    /\ \A k \in 1..(Len(d) - 1) : ~(d[k] = "_" /\ d[k + 1] = "_")

RECURSIVE Horner(_, _)
Horner(d, acc) ==
    IF d = <<>> THEN acc
    ELSE IF Head(d) = "_" THEN Horner(Tail(d), acc)
    ELSE Horner(Tail(d), 10 * acc + DigitVal(Head(d)))

\* int(s) raises ValueError
int_raises(s) == ~ValidDigits(Unsigned(strip(s)))

\* int(s) when it does not raise
int(s) ==
    LET t == strip(s)
        v == Horner(Unsigned(t), 0)
    IN  IF HasSign(t) /\ Head(t) = "-" THEN 0 - v ELSE v

parse_int_raises(value) == value # <<>> /\ int_raises(replace(value, ","))

RECURSIVE FirstGroup(_)
FirstGroup(s) ==
    IF s = <<>> \/ Head(s) = "," THEN <<>> ELSE <<Head(s)>> \o FirstGroup(Tail(s))

\* int(value.split(",")[0]): only the digits before the first comma are read
parse_int_first_group(value) == IF value = <<>> THEN 0 ELSE int(FirstGroup(value))

parse_int(value) == IF value = <<>> THEN 0 ELSE int(replace(value, ","))


(***************************************************************************)
(* Inputs: the CSV file and the outcomes of the API calls                  *)
(***************************************************************************)
Accounts == {"acme_corp", "beta_llc"}

\* the id the platform has given a customer that exists before the run
ExistingId(a) == IF a = "acme_corp" THEN 1 ELSE 2

Row(account, txn, standard, sameday) ==
    [account_id |-> account, transaction_id |-> txn, account_type |-> "checking",
     bank_id |-> "bank_1", standard |-> standard, sameday |-> sameday,
     month |-> "2024-01"]

SampleRows ==
    { Row("acme_corp", "T1", <<"1", ",", "0">>, <<>>),
      Row("acme_corp", "T2", <<"2">>, <<"1", "2">>),
      Row("beta_llc", "T3", <<>>, <<"1", ",", "2">>),
      Row("beta_llc", "T4", <<",">>, <<"1">>) }

RECURSIVE SeqsUpTo(_, _)
SeqsUpTo(S, n) ==
    IF n = 0 THEN {<<>>}
    ELSE LET shorter == SeqsUpTo(S, n - 1)
         IN  shorter \cup {Append(q, x) : q \in {t \in shorter : Len(t) = n - 1}, x \in S}

Files == SeqsUpTo(SampleRows, MaxRows)

Chars == {"0", "1", "2", ",", "-", " ", "_"}

Strings == SeqsUpTo(Chars, MaxLen)

NotFound == 404

Ok == [kind |-> "ok", status_code |-> 200, json_ok |-> TRUE]

\* what an API call can raise; json_ok tells whether e.response.json() parses
Errors ==
    { [kind |-> "APIConnectionError", status_code |-> 0, json_ok |-> FALSE],
      [kind |-> "RateLimitError", status_code |-> 429, json_ok |-> TRUE],
      [kind |-> "Exception", status_code |-> 0, json_ok |-> FALSE] }
    \cup [kind : {"APIStatusError"}, status_code : {NotFound, 500}, json_ok : BOOLEAN]

IsNotFound(o) == o.kind = "APIStatusError" /\ o.status_code = NotFound

\* the platform answers a lookup with the customer when it has one and with 404
\* when it has none; any other failure can happen at any time
FetchOutcomes(a) ==
    IF platform[a] # 0 THEN {Ok} \cup {e \in Errors : ~IsNotFound(e)} ELSE Errors

CreateOutcomes == {Ok} \cup Errors

IngestOutcomes == {Ok} \cup Errors

(***************************************************************************)
(* The script                                                              *)
(***************************************************************************)
\* a key drawn at the first use and kept for every later one
uuid4_drawn_once == IF uuids = 0 THEN 1 ELSE uuids

uuid4 == uuids + 1

\* a rate-limited lookup that logs and falls through instead of exiting
after_fetch_rate_limit_continues(o, cust) ==
    CASE o.kind = "ok" -> IF cust = None THEN "create" ELSE "build"
      [] o.kind = "APIConnectionError" -> "exit"
      [] o.kind = "RateLimitError" -> IF cust = None THEN "create" ELSE "build"
      [] o.kind = "APIStatusError" ->
            IF o.status_code = NotFound
            THEN (IF cust = None THEN "create" ELSE "build")
            ELSE "exit"
      [] o.kind = "Exception" -> "exit"

\* a lookup that treats 404 like every other status
after_fetch_not_found_exits(o, cust) ==
    CASE o.kind = "ok" -> IF cust = None THEN "create" ELSE "build"
      [] o.kind = "APIConnectionError" -> "exit"
      [] o.kind = "RateLimitError" -> "exit"
      [] o.kind = "APIStatusError" -> "exit"
      [] o.kind = "Exception" -> "exit"

\* a lookup whose other-status clause logs and, lacking its exit, falls through
after_fetch_other_status_continues(o, cust) ==
    CASE o.kind = "ok" -> IF cust = None THEN "create" ELSE "build"
      [] o.kind = "APIConnectionError" -> "exit"
      [] o.kind = "RateLimitError" -> "exit"
      [] o.kind = "APIStatusError" -> IF cust = None THEN "create" ELSE "build"
      [] o.kind = "Exception" -> "exit"

\* lines 54-91: the except clauses of the lookup, then `if customer is None`
after_fetch(o, cust) ==
    CASE o.kind = "ok" -> IF cust = None THEN "create" ELSE "build"
      [] o.kind = "APIConnectionError" -> "exit"
      [] o.kind = "RateLimitError" -> "exit"
      [] o.kind = "APIStatusError" ->
            IF o.status_code = NotFound
            THEN (IF cust = None THEN "create" ELSE "build")
            ELSE "exit"
      [] o.kind = "Exception" -> "exit"

\* a rate-limited creation that logs and skips to the next row
after_create_skips_row(o) ==
    CASE o.kind = "ok" -> "build"
      [] o.kind = "APIConnectionError" -> "exit"
      [] o.kind = "RateLimitError" -> "loop"
      [] o.kind = "APIStatusError" -> "exit"
      [] o.kind = "Exception" -> "exit"

\* lines 93-126: every except clause of the creation exits
after_create(o) ==
    CASE o.kind = "ok" -> "build"
      [] o.kind = "APIConnectionError" -> "exit"
      [] o.kind = "RateLimitError" -> "exit"
      [] o.kind = "APIStatusError" -> "exit"
      [] o.kind = "Exception" -> "exit"

\* an ingestion that submits the event again after a rate-limit error
after_ingest_retries_rate_limit(o) ==
    CASE o.kind = "ok" -> "sleep"
      [] o.kind = "APIConnectionError" -> "sleep"
      [] o.kind = "RateLimitError" -> "ingest"
      [] o.kind = "APIStatusError" -> IF o.json_ok THEN "sleep" ELSE "exit"
      [] o.kind = "Exception" -> "sleep"

\* an ingestion that processes the row again after a connectivity error
after_ingest_repeats_row(o) ==
    CASE o.kind = "ok" -> "sleep"
      [] o.kind = "APIConnectionError" -> "fetch"
      [] o.kind = "RateLimitError" -> "sleep"
      [] o.kind = "APIStatusError" -> IF o.json_ok THEN "sleep" ELSE "exit"
      [] o.kind = "Exception" -> "sleep"

\* lines 160-192: the except clauses of the ingestion log and fall through;
\* line 174 evaluates e.response.json() inside the handler, and an exception
\* raised there is not caught by the sibling clauses
after_ingest(o) ==
    CASE o.kind = "ok" -> "sleep"
      [] o.kind = "APIConnectionError" -> "sleep"
      [] o.kind = "RateLimitError" -> "sleep"
      [] o.kind = "APIStatusError" -> IF o.json_ok THEN "sleep" ELSE "exit"
      [] o.kind = "Exception" -> "sleep"

Exited(p) == IF p = "exit" THEN 1 ELSE exitcode

Init ==
    /\ file \in Files
    /\ platform \in [Accounts -> {0, 1, 2}]
    /\ \A a \in Accounts : platform[a] \in {0, ExistingId(a)}
    /\ nextId = Cardinality(Accounts) + 1
    /\ pc = "start"
    /\ i = 0
    /\ row = None
    /\ customer = None
    /\ event = None
    /\ response = None
    /\ uuids = 0
    /\ client = "none"
    /\ opens = 0
    /\ closes = 0
    /\ exitcode = -1
    /\ log = <<>>
    /\ trace = <<>>
    /\ run = 1
    /\ ingested = {}

\* line 39
CreateClient ==
    /\ pc = "start"
    /\ client' = "open"
    /\ opens' = opens + 1
    /\ pc' = "open_file"
    /\ UNCHANGED <<run, ingested, file, platform, nextId, i, row, customer, event, response,
                   uuids, closes, exitcode, log, trace>>

\* lines 41-46
OpenFile ==
    /\ pc = "open_file"
    /\ pc' = "loop"
    /\ UNCHANGED <<run, ingested, file, platform, nextId, i, row, customer, event, response,
                   uuids, client, opens, closes, exitcode, log, trace>>

\* a row loop that keeps the customer of the row before when the account_id is
\* the same, and skips the lookup
NextRow_reuses_customer ==
    /\ pc = "loop"
    /\ i < Len(file)
    /\ i' = i + 1
    /\ row' = file[i + 1]
    /\ IF customer # None /\ customer.external_customer_id = file[i + 1].account_id
       THEN customer' = customer /\ pc' = "build"
       ELSE customer' = None /\ pc' = "fetch"
    /\ UNCHANGED <<run, ingested, file, platform, nextId, event, response, uuids, client,
                   opens, closes, exitcode, log, trace>>

\* a row loop without line 50, the reset of the customer placeholder
NextRow_without_reset ==
    /\ pc = "loop"
    /\ i < Len(file)
    /\ i' = i + 1
    /\ row' = file[i + 1]
    /\ pc' = "fetch"
    /\ UNCHANGED <<run, ingested, file, platform, nextId, customer, event, response, uuids,
                   client, opens, closes, exitcode, log, trace>>

\* lines 47-51: the reader yields the next row
NextRow ==
    /\ pc = "loop"
    /\ i < Len(file)
    /\ i' = i + 1
    /\ row' = file[i + 1]
    /\ customer' = None
    /\ pc' = "fetch"
    /\ UNCHANGED <<run, ingested, file, platform, nextId, event, response, uuids, client,
                   opens, closes, exitcode, log, trace>>

\* line 47: the reader is exhausted
EndOfFile ==
    /\ pc = "loop"
    /\ i = Len(file)
    /\ pc' = "close"
    /\ UNCHANGED <<run, ingested, file, platform, nextId, i, row, customer, event, response,
                   uuids, client, opens, closes, exitcode, log, trace>>

\* lines 53-91
FetchCustomer ==
    /\ pc = "fetch"
    /\ \E o \in FetchOutcomes(row.account_id) :
          LET cust == IF o.kind = "ok"
                      THEN [id |-> platform[row.account_id],
                            external_customer_id |-> row.account_id]
                      ELSE customer
              next == after_fetch(o, cust)
          IN  /\ customer' = cust
              /\ trace' = Append(trace, [op |-> "fetch", n |-> i,
                                         external_customer_id |-> row.account_id,
                                         outcome |-> o,
                                         id |-> IF o.kind = "ok"
                                                THEN platform[row.account_id]
                                                ELSE 0])
              /\ pc' = next
              /\ exitcode' = Exited(next)
    /\ UNCHANGED <<run, ingested, file, platform, nextId, i, row, event, response, uuids,
                   client, opens, closes, log>>

\* lines 92-126
CreateCustomer ==
    /\ pc = "create"
    /\ \E o \in CreateOutcomes :
          LET next == after_create(o)
          IN  /\ trace' = Append(trace, [op |-> "create", n |-> i,
                                         external_customer_id |-> row.account_id,
                                         idempotency_key |-> uuid4,
                                         outcome |-> o,
                                         id |-> IF o.kind = "ok" THEN nextId ELSE 0])
              /\ uuids' = uuid4
              /\ IF o.kind = "ok"
                 THEN /\ customer' = [id |-> nextId,
                                      external_customer_id |-> row.account_id]
                      /\ platform' = [platform EXCEPT ![row.account_id] = nextId]
                      /\ nextId' = nextId + 1
                 ELSE UNCHANGED <<customer, platform, nextId>>
              /\ pc' = next
              /\ exitcode' = Exited(next)
    /\ UNCHANGED <<run, ingested, file, i, row, event, response, client, opens, closes, log>>

\* line 138
event_customer_id == customer.id

\* a key derived from the row, here its position in the file, instead of drawn
event_idempotency_key_from_row == i

\* line 142
event_idempotency_key == uuid4

\* lines 144-151
event_properties ==
    [transaction_id |-> row.transaction_id,
     account_type |-> row.account_type,
     bank_id |-> row.bank_id,
     standard |-> parse_int(row.standard),
     sameday |-> parse_int(row.sameday),
     month |-> row.month]

\* lines 137-152: the payload; customer.id raises on None, parse_int on a
\* value that is no integer literal, and nothing in main catches either
BuildEvent ==
    /\ pc = "build"
    /\ IF customer = None
       THEN /\ pc' = "exit"
            /\ exitcode' = 1
            /\ UNCHANGED <<event, uuids>>
       ELSE /\ uuids' = uuid4
            /\ IF parse_int_raises(row.standard) \/ parse_int_raises(row.sameday)
               THEN /\ pc' = "exit"
                    /\ exitcode' = 1
                    /\ UNCHANGED event
               ELSE /\ event' = [customer_id |-> event_customer_id,
                                 idempotency_key |-> event_idempotency_key,
                                 event_name |-> "payment_transaction",
                                 properties |-> event_properties]
                    /\ pc' = "ingest"
                    /\ UNCHANGED exitcode
    /\ UNCHANGED <<run, ingested, file, platform, nextId, i, row, customer, response, client,
                   opens, closes, log, trace>>

\* the platform stores an accepted event unless it has already stored one with
\* the same idempotency key; r and n tell which run and row submitted it
Stored(store, ev, r, n) ==
    IF \E e \in store : e.idempotency_key = ev.idempotency_key
    THEN store
    ELSE store \cup {[run |-> r, n |-> n,
                      idempotency_key |-> ev.idempotency_key,
                      transaction_id |-> ev.properties.transaction_id]}

\* lines 156-189: the ingest call, its except clauses and the result line
IngestEvent ==
    /\ pc = "ingest"
    /\ \E o \in IngestOutcomes :
          LET next == after_ingest(o)
              resp == IF o.kind = "ok" THEN [ok |-> TRUE] ELSE None
          IN  /\ trace' = Append(trace, [op |-> "ingest", n |-> i,
                                         events |-> <<event>>, outcome |-> o])
              /\ response' = resp
              /\ log' = IF next = "exit" THEN log
                        ELSE Append(log, [n |-> i,
                                          transaction_id |-> row.transaction_id,
                                          ok |-> resp # None])
              /\ ingested' = IF o.kind = "ok" THEN Stored(ingested, event, run, i)
                             ELSE ingested
              /\ pc' = next
              /\ exitcode' = Exited(next)
    /\ UNCHANGED <<run, file, platform, nextId, i, row, customer, event, uuids,
                   client, opens, closes>>

SleepTenths == 15

\* line 192
Sleep ==
    /\ pc = "sleep"
    /\ trace' = Append(trace, [op |-> "sleep", n |-> i, tenths |-> SleepTenths])
    /\ pc' = "loop"
    /\ UNCHANGED <<run, ingested, file, platform, nextId, i, row, customer, event, response,
                   uuids, client, opens, closes, exitcode, log>>

\* the end of main without the call of client.close()
CloseClient_without_close ==
    /\ pc = "close"
    /\ pc' = "done"
    /\ exitcode' = 0
    /\ UNCHANGED <<run, ingested, file, platform, nextId, i, row, customer, event, response,
                   uuids, client, opens, closes, log, trace>>

\* lines 194-197, then main returns
CloseClient ==
    /\ pc = "close"
    /\ client' = "closed"
    /\ closes' = closes + 1
    /\ pc' = "done"
    /\ exitcode' = 0
    /\ UNCHANGED <<run, ingested, file, platform, nextId, i, row, customer, event, response,
                   uuids, opens, log, trace>>

Next ==
    \/ CreateClient
    \/ OpenFile
    \/ NextRow
    \/ EndOfFile
    \/ FetchCustomer
    \/ CreateCustomer
    \/ BuildEvent
    \/ IngestEvent
    \/ Sleep
    \/ CloseClient

Spec == Init /\ [][Next]_vars

\* the script is started again on the same file after a run that exited with
\* code 1: a new process, with nothing kept from the run before but what the
\* platform stores; uuid4 goes on never repeating a value
Rerun ==
    /\ pc = "exit"
    /\ run = 1
    /\ run' = run + 1
    /\ pc' = "start"
    /\ i' = 0
    /\ row' = None
    /\ customer' = None
    /\ event' = None
    /\ response' = None
    /\ client' = "none"
    /\ opens' = 0
    /\ closes' = 0
    /\ exitcode' = -1
    /\ log' = <<>>
    /\ trace' = <<>>
    /\ UNCHANGED <<file, platform, nextId, uuids, ingested>>

RerunNext == Next \/ Rerun

RerunSpec == Init /\ [][RerunNext]_vars

\* the interpreter always takes the next step of main, and every API call and
\* the sleep return or raise
FairSpec == Spec /\ WF_vars(Next)

\* a file of one row whose numeric columns range over every short string
ParseInit ==
    /\ \E s \in Strings :
          \/ file = <<Row("acme_corp", "T1", s, <<>>)>>
          \/ file = <<Row("acme_corp", "T1", <<>>, s)>>
    /\ platform \in [Accounts -> {0, 1, 2}]
    /\ \A a \in Accounts : platform[a] \in {0, ExistingId(a)}
    /\ nextId = Cardinality(Accounts) + 1
    /\ pc = "start"
    /\ i = 0
    /\ row = None
    /\ customer = None
    /\ event = None
    /\ response = None
    /\ uuids = 0
    /\ client = "none"
    /\ opens = 0
    /\ closes = 0
    /\ exitcode = -1
    /\ log = <<>>
    /\ trace = <<>>
    /\ run = 1
    /\ ingested = {}

ParseSpec == ParseInit /\ [][Next]_vars


(***************************************************************************)
(* Vocabulary of the properties                                            *)
(***************************************************************************)
Calls(op) == {k \in 1..Len(trace) : trace[k].op = op}

CallsOf(op, n) == {k \in Calls(op) : trace[k].n = n}

Terminated == pc \in {"done", "exit"}

\* row n has been through its ingest call and the run went on
Completed(n) == n < i \/ (n = i /\ pc \in {"sleep", "loop", "close", "done"})

Failed(o) == o.kind # "ok"

\* a lookup failure other than not-found
FetchFatal(o) == Failed(o) /\ ~IsNotFound(o)

\* every numeric column of the file is the empty string or an integer literal
WellFormedFile ==
    \A n \in 1..Len(file) :
        ~parse_int_raises(file[n].standard) /\ ~parse_int_raises(file[n].sameday)

EventKeys == {trace[k].events[1].idempotency_key : k \in Calls("ingest")}

CreateKeys == {trace[k].idempotency_key : k \in Calls("create")}

(***************************************************************************)
(* C1                                                                      *)
(***************************************************************************)
\* C1 as stated: when the run has ended, every row of the file has exactly one
\* ingest call carrying one event, and no two events share an idempotency key.
C1_EveryRowOneEvent ==
    Terminated =>
        /\ \A n \in 1..Len(file) :
              /\ Cardinality(CallsOf("ingest", n)) = 1
              /\ \A k \in CallsOf("ingest", n) : Len(trace[k].events) = 1
        /\ \A j, k \in Calls("ingest") :
              j # k => trace[j].events[1].idempotency_key
                          # trace[k].events[1].idempotency_key

\* C1 amended: every row gets at most one ingest call, each carrying one event;
\* a row the run completed (it went on to the delay) got exactly one, so a run
\* that ends with exit code 0 submitted exactly one event per row; an event's
\* idempotency key is used by no other event and by no customer creation.
C1_OneEventPerCompletedRow ==
    /\ \A n \in 1..Len(file) :
          /\ Cardinality(CallsOf("ingest", n)) <= 1
          /\ \A k \in CallsOf("ingest", n) : Len(trace[k].events) = 1
          /\ Completed(n) => Cardinality(CallsOf("ingest", n)) = 1
          /\ n > i => CallsOf("ingest", n) = {}
    /\ \A j, k \in Calls("ingest") :
          j # k => trace[j].events[1].idempotency_key
                      # trace[k].events[1].idempotency_key
    /\ EventKeys \cap CreateKeys = {}
    /\ exitcode = 0 => \A n \in 1..Len(file) : Completed(n)

\* a run of two rows that ended normally, the first customer created
C1_Witness ==
    /\ pc = "done"
    /\ Len(file) = 2
    /\ Cardinality(Calls("ingest")) = 2
    /\ Calls("create") # {}

(***************************************************************************)
(* C2                                                                      *)
(***************************************************************************)
\* C2: a lookup that raised a connectivity or a rate-limit error is the last
\* call of the run: the process has exited with code 1 and no ingest call was
\* made for that row or a later one.
C2_LookupConnectivityOrRateLimitExits ==
    \A k \in Calls("fetch") :
        trace[k].outcome.kind \in {"APIConnectionError", "RateLimitError"} =>
            /\ pc = "exit"
            /\ exitcode = 1
            /\ k = Len(trace)
            /\ \A j \in Calls("ingest") : trace[j].n < trace[k].n

\* the second row's lookup was rate limited after the first row was ingested
C2_Witness ==
    /\ trace # <<>>
    /\ trace[Len(trace)].op = "fetch"
    /\ trace[Len(trace)].outcome.kind = "RateLimitError"
    /\ trace[Len(trace)].n = 2
    /\ CallsOf("ingest", 1) # {}
    /\ exitcode = 1

(***************************************************************************)
(* C3                                                                      *)
(***************************************************************************)
\* C3: an ingest call that failed, whatever the error class, has its row logged
\* as failed and does not end the process.
C3_IngestFailureNeverTerminates ==
    \A k \in Calls("ingest") :
        Failed(trace[k].outcome) =>
            /\ ~(k = Len(trace) /\ pc = "exit")
            /\ \E l \in 1..Len(log) : log[l].n = trace[k].n /\ ~log[l].ok

(***************************************************************************)
(* C4                                                                      *)
(***************************************************************************)
\* C4: a lookup answered with 404 is followed by exactly one creation call for
\* the row's account_id (it is the next call, or about to be made), and an event
\* submitted for that row carries the id that creation call returned.
C4_NotFoundCreatesOnce ==
    \A k \in Calls("fetch") :
        IsNotFound(trace[k].outcome) =>
            \/ k = Len(trace) /\ pc = "create" /\ i = trace[k].n
            \/ /\ k < Len(trace)
               /\ CallsOf("create", trace[k].n) = {k + 1}
               /\ trace[k + 1].external_customer_id = file[trace[k].n].account_id
               /\ \A m \in CallsOf("ingest", trace[k].n) :
                     /\ trace[k + 1].outcome.kind = "ok"
                     /\ trace[m].events[1].customer_id = trace[k + 1].id

\* an event was submitted for a row whose customer had to be created
C4_Witness ==
    \E k \in Calls("fetch") :
        /\ IsNotFound(trace[k].outcome)
        /\ \E m \in CallsOf("ingest", trace[k].n) :
              trace[m].events[1].customer_id = trace[k + 1].id

(***************************************************************************)
(* C5                                                                      *)
(***************************************************************************)
\* C5: on a file whose numeric columns all parse, the process ends with exit
\* code 1 exactly when a lookup or a creation failed fatally, and with 0
\* otherwise; ingestion failures leave it 0.
C5_ExitCodeOneIffResolutionFailed ==
    Terminated /\ WellFormedFile =>
        /\ exitcode \in {0, 1}
        /\ exitcode = 1 <=>
              \/ \E k \in Calls("fetch") : FetchFatal(trace[k].outcome)
              \/ \E k \in Calls("create") : Failed(trace[k].outcome)

(***************************************************************************)
(* C6                                                                      *)
(***************************************************************************)
\* C6: a creation call that failed, whatever the error class, is the last call
\* of the run: the process has exited with code 1 and no ingest call was made
\* for that row or a later one.
C6_CreationFailureExits ==
    \A k \in Calls("create") :
        Failed(trace[k].outcome) =>
            /\ pc = "exit"
            /\ exitcode = 1
            /\ k = Len(trace)
            /\ \A j \in Calls("ingest") : trace[j].n < trace[k].n

\* the second row's creation was answered 404 after the first row was ingested
C6_Witness ==
    /\ trace # <<>>
    /\ trace[Len(trace)].op = "create"
    /\ IsNotFound(trace[Len(trace)].outcome)
    /\ trace[Len(trace)].n = 2
    /\ CallsOf("ingest", 1) # {}
    /\ exitcode = 1

(***************************************************************************)
(* C7                                                                      *)
(***************************************************************************)
\* C7: every ingest call, failed or not, is followed by the delay of 1.5: the
\* delay is the next thing the run does, exactly one delay lies between a row's
\* ingest call and the next row's lookup, and a run that has ended took the
\* delay after its last ingest call.
C7_DelayAfterEveryRow ==
    \A k \in Calls("ingest") :
        /\ k = Len(trace) => pc = "sleep"
        /\ k < Len(trace) =>
              /\ trace[k + 1].op = "sleep"
              /\ trace[k + 1].tenths = SleepTenths
              /\ trace[k + 1].n = trace[k].n
              /\ k + 1 < Len(trace) => trace[k + 2].op = "fetch"

(***************************************************************************)
(* C8                                                                      *)
(***************************************************************************)
\* C8 as stated: the client is constructed once and, however the run ends,
\* closed once.
C8_ClosedHoweverTheRunEnds ==
    Terminated => opens = 1 /\ closes = 1 /\ client = "closed"

\* C8 amended: the client is constructed exactly once, before any row is read
\* or any call made; client.close() is called exactly once when the row loop
\* ends normally, after the last call, and is not called at all when the run
\* ends with exit code 1.
C8_ClosedOnNormalEndOnly ==
    /\ opens = (IF pc = "start" THEN 0 ELSE 1)
    /\ pc = "start" => i = 0 /\ trace = <<>>
    /\ closes = (IF pc = "done" THEN 1 ELSE 0)
    /\ client = (IF pc = "start" THEN "none"
                 ELSE IF pc = "done" THEN "closed" ELSE "open")
    /\ pc = "done" => exitcode = 0 /\ i = Len(file)
    /\ pc = "exit" => exitcode = 1
    /\ exitcode = 1 => pc = "exit"

\* a run that exited on a fatal lookup with the client still open
C8_Witness ==
    /\ pc = "exit"
    /\ trace # <<>>
    /\ trace[Len(trace)].op = "fetch"
    /\ client = "open"
    /\ closes = 0


(***************************************************************************)
(* C9                                                                      *)
(***************************************************************************)
\* a string of digits and commas with at least one digit
CommaDigits(s) ==
    /\ \A k \in 1..Len(s) : s[k] \in Digits \cup {","}
    /\ \E k \in 1..Len(s) : s[k] \in Digits

\* the number its digits spell, read from the right, commas skipped
RECURSIVE Numeral(_)
Numeral(s) ==
    IF s = <<>> THEN 0
    ELSE LET front == SubSeq(s, 1, Len(s) - 1)
             last == s[Len(s)]
         IN  IF last = "," THEN Numeral(front)
             ELSE 10 * Numeral(front) + DigitVal(last)

\* C9: parse_int gives 0 for the empty string and, for a string of digits with
\* or without commas, the number the digits spell with the commas deleted; the
\* standard and sameday properties of every submitted event are parse_int of the
\* row's standard and sameday columns.
C9_ParseInt ==
    /\ \A n \in 1..Len(file) : \A s \in {file[n].standard, file[n].sameday} :
          /\ s = <<>> => ~parse_int_raises(s) /\ parse_int(s) = 0
          /\ CommaDigits(s) => ~parse_int_raises(s) /\ parse_int(s) = Numeral(s)
    /\ \A k \in Calls("ingest") :
          LET p == trace[k].events[1].properties
              r == file[trace[k].n]
          IN  /\ ~parse_int_raises(r.standard)
              /\ ~parse_int_raises(r.sameday)
              /\ p.standard = parse_int(r.standard)
              /\ p.sameday = parse_int(r.sameday)

\* an event was submitted for a row whose standard column is "1,2"
C9_Witness ==
    \E k \in Calls("ingest") :
        /\ file[trace[k].n].standard = <<"1", ",", "2">>
        /\ file[trace[k].n].sameday = <<>>
        /\ trace[k].events[1].properties.standard = 12
        /\ trace[k].events[1].properties.sameday = 0

(***************************************************************************)
(* C10                                                                     *)
(***************************************************************************)
\* C10: on a file whose numeric columns all parse, the calls of a row come in
\* the order lookup, creation only after not-found, ingest, delay; a row starts
\* only after the delay of the row before; the run ends only at the end of the
\* file, after the last row's delay, or by the exit of a fatal lookup or creation.
C10_RowStateMachine ==
    WellFormedFile =>
        /\ trace # <<>> => trace[1].op = "fetch" /\ trace[1].n = 1
        /\ \A k \in 1..(Len(trace) - 1) :
              LET a == trace[k]
                  b == trace[k + 1]
              IN  CASE a.op = "fetch" ->
                         /\ b.n = a.n
                         /\ IF IsNotFound(a.outcome) THEN b.op = "create"
                            ELSE a.outcome.kind = "ok" /\ b.op = "ingest"
                    [] a.op = "create" ->
                         b.n = a.n /\ a.outcome.kind = "ok" /\ b.op = "ingest"
                    [] a.op = "ingest" -> b.n = a.n /\ b.op = "sleep"
                    [] a.op = "sleep" -> b.n = a.n + 1 /\ b.op = "fetch"
        /\ pc = "done" =>
              /\ i = Len(file)
              /\ Len(file) > 0 =>
                    trace[Len(trace)].op = "sleep" /\ trace[Len(trace)].n = Len(file)
        /\ pc = "exit" =>
              \/ trace[Len(trace)].op = "fetch" /\ FetchFatal(trace[Len(trace)].outcome)
              \/ trace[Len(trace)].op = "create" /\ Failed(trace[Len(trace)].outcome)


(***************************************************************************)
(* C11                                                                     *)
(***************************************************************************)
\* the lookup of row n has been answered and its handler has run
LookedUp(n) == CallsOf("fetch", n) # {}

\* a creation call was made for row n, or is the next thing the run does
Creates(n) == CallsOf("create", n) # {} \/ (i = n /\ pc = "create")

\* C11: a row gets a creation call exactly when its lookup was answered 404; a
\* lookup that found the customer is never followed by a creation for that row,
\* and a lookup that failed in any other way is the last call of the run, which
\* has exited with code 1.
C11_CreationIffNotFound ==
    /\ \A n \in 1..Len(file) :
          Creates(n) <=> \E k \in CallsOf("fetch", n) : IsNotFound(trace[k].outcome)
    /\ \A k \in Calls("fetch") :
          /\ trace[k].outcome.kind = "ok" => ~Creates(trace[k].n)
          /\ FetchFatal(trace[k].outcome) =>
                /\ ~Creates(trace[k].n)
                /\ k = Len(trace)
                /\ pc = "exit"
                /\ exitcode = 1

\* a run that ended normally in which the first row's customer was found, with
\* no creation, and the second row's was created after a 404
C11_Witness ==
    /\ Len(file) = 2
    /\ pc = "done"
    /\ \E k \in CallsOf("fetch", 1) : trace[k].outcome.kind = "ok"
    /\ ~Creates(1)
    /\ \E k \in CallsOf("fetch", 2) : IsNotFound(trace[k].outcome)
    /\ CallsOf("create", 2) # {}

(***************************************************************************)
(* C12                                                                     *)
(***************************************************************************)
\* C12: every row has at most one lookup call, at most one creation call and at
\* most one ingest call, and the calls never go back to an earlier row; a row
\* whose ingest call failed has no second ingest call.
C12_AtMostOneCallOfEachKindPerRow ==
    /\ \A n \in 1..Len(file) : \A op \in {"fetch", "create", "ingest"} :
          Cardinality(CallsOf(op, n)) <= 1
    /\ \A j, k \in 1..Len(trace) : j < k => trace[j].n <= trace[k].n
    /\ \A k \in 1..Len(trace) : trace[k].n \in 1..i

\* the first row's ingest call failed and the run went on to the second row
C12_Witness ==
    /\ \E k \in CallsOf("ingest", 1) : Failed(trace[k].outcome)
    /\ CallsOf("ingest", 2) # {}
    /\ Cardinality(CallsOf("ingest", 1)) = 1


(***************************************************************************)
(* C13                                                                     *)
(***************************************************************************)
CreatesFor(a) == {k \in Calls("create") : trace[k].external_customer_id = a}

\* C13: every row that has been processed has its own lookup call, made with the
\* row's account_id before any other call of the row, also when an earlier row
\* had the same account_id; with a platform that keeps a created customer and
\* finds it at later lookups, no account_id gets more than one creation call.
C13_LookupPerRowCreationPerAccount ==
    /\ \A n \in 1..i :
          (n < i \/ pc # "fetch") =>
              /\ Cardinality(CallsOf("fetch", n)) = 1
              /\ \A k \in CallsOf("fetch", n) :
                    /\ trace[k].external_customer_id = file[n].account_id
                    /\ \A j \in 1..Len(trace) : trace[j].n = n => k <= j
    /\ \A a \in Accounts : Cardinality(CreatesFor(a)) <= 1

\* two rows of one account: the first row's customer was created, the second
\* row's lookup was made all the same and found it
C13_Witness ==
    /\ Len(file) = 2
    /\ file[1].account_id = file[2].account_id
    /\ \E k \in CallsOf("create", 1) : trace[k].outcome.kind = "ok"
    /\ \E k \in CallsOf("fetch", 2) : trace[k].outcome.kind = "ok"
    /\ CallsOf("create", 2) = {}
    /\ CallsOf("ingest", 2) # {}

(***************************************************************************)
(* C14                                                                     *)
(***************************************************************************)
\* C14: the customer_id of every submitted event is the id returned to the same
\* row by its lookup or, after a 404, by its creation call, made with the row's
\* account_id; it is never the customer of an earlier row.
C14_EventCustomerIsTheRowsOwn ==
    \A k \in Calls("ingest") :
        \E j \in 1..(k - 1) :
            /\ trace[j].op \in {"fetch", "create"}
            /\ trace[j].n = trace[k].n
            /\ trace[j].outcome.kind = "ok"
            /\ trace[j].external_customer_id = file[trace[k].n].account_id
            /\ trace[j].id = trace[k].events[1].customer_id
            /\ trace[j].id # 0

\* two rows of different accounts, the first found and the second created, each
\* event carrying its own row's customer
C14_Witness ==
    /\ Len(file) = 2
    /\ file[1].account_id # file[2].account_id
    /\ \E k \in CallsOf("fetch", 1) : trace[k].outcome.kind = "ok"
    /\ \E k \in CallsOf("create", 2) : trace[k].outcome.kind = "ok"
    /\ \E j \in CallsOf("ingest", 1), k \in CallsOf("ingest", 2) :
          trace[j].events[1].customer_id # trace[k].events[1].customer_id


(***************************************************************************)
(* C15                                                                     *)
(***************************************************************************)
ApiCallsOf(n) == {k \in 1..Len(trace) : trace[k].n = n /\ trace[k].op # "sleep"}

\* the run has ended: at the end of the file with exit code 0, or by an exit
\* with code 1
Ended == (pc = "done" /\ exitcode = 0 /\ i = Len(file)) \/ (pc = "exit" /\ exitcode = 1)

\* C15: whatever the file and the outcomes of the API calls, the run ends, with
\* exit code 0 at the end of the file or with exit code 1, and no row ever has
\* more than three API calls.
C15_RunTerminates ==
    /\ <>Ended
    /\ [](\A n \in 1..Len(file) : Cardinality(ApiCallsOf(n)) <= 3)
    /\ [](Terminated => Ended)

\* a run of two rows that has ended, the first row having taken its three calls
C15_Witness ==
    /\ Ended
    /\ Len(file) = 2
    /\ Cardinality(ApiCallsOf(1)) = 3
    /\ i = 2


(***************************************************************************)
(* C16                                                                     *)
(***************************************************************************)
\* the events the platform stored in the run that exited
FirstRunEvents == {e \in ingested : e.run = 1}

\* C16: in the run started again after a fatal exit, nothing of the first run is
\* remembered: every row the run completes, also one whose event the platform
\* accepted in the first run, has its ingest call; the key of every event
\* submitted differs from every key the platform stored in the first run, so an
\* event the platform accepts is stored again beside the first run's.
C16_RerunSubmitsAgainWithNewKeys ==
    run = 2 =>
        /\ \A n \in 1..Len(file) :
              Completed(n) => Cardinality(CallsOf("ingest", n)) = 1
        /\ \A k \in Calls("ingest") :
              LET ev == trace[k].events[1]
              IN  /\ \A e \in FirstRunEvents : e.idempotency_key # ev.idempotency_key
                  /\ trace[k].outcome.kind = "ok" =>
                        [run |-> 2, n |-> trace[k].n,
                         idempotency_key |-> ev.idempotency_key,
                         transaction_id |-> ev.properties.transaction_id] \in ingested

\* the first run stored the first row's event and exited at the second row; the
\* second run's event for the first row is stored as well, under another key
C16_Witness ==
    /\ run = 2
    /\ \E e1, e2 \in ingested :
          /\ e1.run = 1
          /\ e2.run = 2
          /\ e1.n = 1
          /\ e2.n = 1
          /\ e1.transaction_id = e2.transaction_id
          /\ e1.idempotency_key # e2.idempotency_key

====
